---- MODULE Spec2Model ----
(***************************************************************************)
(* Model of glpilib2.basic_wrapper.RequestHandler: the session life cycle  *)
(* (init_session / kill_session / with-block), the session guard of every  *)
(* operation, the recording of response headers and the parsing of the     *)
(* range headers by response_range.                                        *)
(*                                                                         *)
(* The remote GLPI service and the HTTP transport are the environment:     *)
(* every request is answered by a response (status, body, headers) chosen  *)
(* nondeterministically, or by no response at all (transport exception).   *)
(***************************************************************************)
EXTENDS Integers, Sequences, FiniteSets, TLC

(***************************************************************************)
(* Bounds of the model.                                                    *)
(***************************************************************************)
\* number of session tokens the remote service hands out in one behaviour
MaxTokens == 2
\* largest number written into a range header (two decimal digits are reached)
MaxNum == 10

(***************************************************************************)
(* Python values.                                                          *)
(***************************************************************************)
\* self.__session_token = None ; tokens issued by the remote are 1..MaxTokens
None == 0

\* outcomes of a call: normal return or the exception that reaches the caller
Ok == "ok"
Err ==
    [NotInitiated |-> "GLPIError: Request handler was not initiated! Please call init_session if you want to start a new session.",
     AlreadyInit |-> "GLPIError: Session already initialized.",
     SessionExpired |-> "GLPIError: Session expired",
     NoRequest |-> "GLPIError: No request made",
     NoRange |-> "GLPIError: The previous request did not return a range",
     ProfileNotFound |-> "GLPIError: Profile not found",
     ItemNotFound |-> "GLPIError: <item_type> with id=<id_> was not found",
     Entity |-> "GLPIError: r.json()[1]",
     NoPicture |-> "GLPIError: User doesn't have a profile picture",
     Request |-> "GLPIRequestError",
     RequestBlank |-> "GLPIRequestError: GLPI produced a blank response.",
     RequestNotJson |-> "GLPIRequestError: Expected a JSON got a ...",
     JSONDecode |-> "JSONDecodeError",
     Key |-> "KeyError",
     Type |-> "TypeError",
     Index |-> "IndexError",
     Value |-> "ValueError",
     Attribute |-> "AttributeError",
     HTTP |-> "requests.HTTPError",
     Connection |-> "requests.ConnectionError",
     Body |-> "BodyError",
     NotImplemented |-> "NotImplementedError"]

(***************************************************************************)
(* Response bodies.  A body is the text of the response; json() either     *)
(* decodes it to a list, an object, a string, a number or null, or raises  *)
(* JSONDecodeError (blank or non-JSON text).                               *)
(***************************************************************************)
Body(t, items, keys, token) == [t |-> t, items |-> items, keys |-> keys, token |-> token]

BodyBlank == Body("blank", <<>>, {}, None)
BodyHtml == Body("text", <<>>, {}, None)
BodyTokenInvalid == Body("list", <<"ERROR_SESSION_TOKEN_INVALID", "session_token seems invalid">>, {}, None)
BodyOtherError == Body("list", <<"ERROR_RIGHT_MISSING", "no right">>, {}, None)
BodyEmptyObject == Body("dict", <<>>, {}, None)
BodySession(t) == Body("dict", <<>>, {"session_token"}, t)
\* the JSON document the called endpoint documents (its expected keys present)
BodyExpected == Body("dict", <<>>, {"expected"}, None)

\* response.json() succeeds
IsJson(body) == body.t \notin {"blank", "text"}

\* len(message) of a decoded body: defined for list, dict and str only
HasLen(body) == body.t \in {"list", "dict", "str"}
PyLen(body) ==
    CASE body.t = "list" -> Len(body.items)
      [] body.t = "dict" -> Cardinality(body.keys)
      [] body.t = "str"  -> Len(body.items)
      [] OTHER -> 0

(***************************************************************************)
(* Text of the range headers, as sequences of characters.                  *)
(***************************************************************************)
Digits == <<"0", "1", "2", "3", "4", "5", "6", "7", "8", "9">>

IsDigit(ch) == \E i \in 1..10 : Digits[i] = ch
IsSpace(ch) == ch \in {" ", "\t"}

\* str(n) for a non-negative int
RECURSIVE IntToStr(_)
IntToStr(n) ==
    IF n < 10 THEN <<Digits[n + 1]>>
    ELSE IntToStr(n \div 10) \o <<Digits[(n % 10) + 1]>>

\* int(s) for a string of decimal digits
RECURSIVE StrToInt(_)
StrToInt(s) ==
    IF Len(s) = 0 THEN 0
    ELSE 10 * StrToInt(SubSeq(s, 1, Len(s) - 1))
         + (CHOOSE i \in 1..10 : Digits[i] = s[Len(s)]) - 1

IsDecimal(s) == Len(s) > 0 /\ \A i \in 1..Len(s) : IsDigit(s[i])

\* \d+ matched greedily from position i: the position after the run of digits
RECURSIVE DigitRunEnd(_, _)
DigitRunEnd(s, i) ==
    IF i <= Len(s) /\ IsDigit(s[i]) THEN DigitRunEnd(s, i + 1) ELSE i

\* str.split(): the maximal runs of non-whitespace characters, in order
RECURSIVE SplitFrom(_, _, _)
SplitFrom(s, i, cur) ==
    IF i > Len(s) THEN (IF Len(cur) = 0 THEN <<>> ELSE <<cur>>)
    ELSE IF IsSpace(s[i])
         THEN (IF Len(cur) = 0 THEN <<>> ELSE <<cur>>) \o SplitFrom(s, i + 1, <<>>)
         ELSE SplitFrom(s, i + 1, Append(cur, s[i]))
PySplit(s) == SplitFrom(s, 1, <<>>)

\* re.match(r"(?P<start>\d+)-(?P<end>\d+)/(?P<count>\d+)", s)
ReMatchRange(s) ==
    LET a == DigitRunEnd(s, 1)
        b == DigitRunEnd(s, a + 1)
        c == DigitRunEnd(s, b + 1)
    IN  IF /\ a > 1
           /\ a <= Len(s) /\ s[a] = "-"
           /\ b > a + 1
           /\ b <= Len(s) /\ s[b] = "/"
           /\ c > b + 1
        THEN [matched |-> TRUE,
              start |-> SubSeq(s, 1, a - 1),
              end |-> SubSeq(s, a + 1, b - 1),
              count |-> SubSeq(s, b + 1, c - 1)]
        ELSE [matched |-> FALSE, start |-> <<>>, end |-> <<>>, count |-> <<>>]

ResponseRange(start, end, count, max) ==
    [start |-> start, end |-> end, count |-> count, max |-> max]
NoRange == ResponseRange(-1, -1, -1, -1)

(***************************************************************************)
(* Response headers: self.__response_header is None or the header mapping  *)
(* of a response.                                                          *)
(***************************************************************************)
Header(h) == [isNone |-> FALSE, h |-> h]
\* What the remote puts into the range headers of one response: which of the
\* two headers are present, the numbers and the unit.
Items == <<"i", "t", "e", "m", "s">>
Rng(cr, ar, s, e, c, m, unit) ==
    [cr |-> cr, ar |-> ar, s |-> s, e |-> e, c |-> c, m |-> m, unit |-> unit]
NoRng == Rng(FALSE, FALSE, 0, 0, 0, 0, Items)
\* the headers of the response: Content-Range "<s>-<e>/<c>", Accept-Range
\* "<unit> <m>"
HeadersFor(rg) ==
    [k \in (IF rg.cr THEN {"Content-Range"} ELSE {}) \cup (IF rg.ar THEN {"Accept-Range"} ELSE {}) |->
        IF k = "Content-Range"
        THEN IntToStr(rg.s) \o <<"-">> \o IntToStr(rg.e) \o <<"/">> \o IntToStr(rg.c)
        ELSE rg.unit \o <<" ">> \o IntToStr(rg.m)]

\* the range headers used in the session model: none, both (two answers),
\* Content-Range only, Accept-Range only
ListRngs ==
    {NoRng, Rng(TRUE, TRUE, 0, 49, 120, 500, Items), Rng(TRUE, TRUE, 0, 1, 2, 990, Items),
     Rng(TRUE, FALSE, 0, 1, 2, 0, Items), Rng(FALSE, TRUE, 0, 0, 0, 990, Items)}
\* the range headers used in the model of the range parsing
BoundedRngs ==
    {Rng(TRUE, TRUE, s, e, c, m, u) : s \in 0..MaxNum, e \in 0..MaxNum, c \in 0..MaxNum,
                                      m \in 0..MaxNum, u \in {Items, <<"b">>}}

(***************************************************************************)
(* HTTP responses and requests.                                            *)
(***************************************************************************)
\* no response object: the transport raised instead of returning
NoResponse == 0
Statuses == {200, 204, 206, 304, 400, 401, 404, 500}

Response(status, body, headers) == [status |-> status, body |-> body, headers |-> headers]
NullResponse == Response(NoResponse, BodyBlank, HeadersFor(NoRng))

Request(method, action, token) == [method |-> method, action |-> action, token |-> token]

(***************************************************************************)
(* The handler.  h is the private state of a RequestHandler:               *)
(*   session_token    self.__session_token                                 *)
(*   session          self.__session is not None                           *)
(*   response_header  self.__response_header                               *)
(* Every method is an operator from the state, the arguments and the       *)
(* response the transport gives to the request it issues (if it issues     *)
(* one) to a result: the new state, the outcome, the requests issued.      *)
(***************************************************************************)
Handler(tok, sess, hdr) == [session_token |-> tok, session |-> sess, response_header |-> hdr]

Result(h, exc, reqs, resp, err, tok, range) ==
    [h |-> h, exc |-> exc, reqs |-> reqs, resp |-> resp, err |-> err, tok |-> tok, range |-> range]

\* a raise before any request was sent
Raise(h, exc) == Result(h, exc, <<>>, NullResponse, NullResponse, None, NoRange)

\* RequestHandler.__init__
NewHandler == Handler(None, FALSE, [isNone |-> TRUE, h |-> [k \in {} |-> <<>>]])

\* variant: the property hands out the stored value without the None check
session_token_unchecked(h) ==
    Result(h, Ok, <<>>, NullResponse, NullResponse, h.session_token, NoRange)

\* property RequestHandler.session_token
session_token_of(h) ==
    IF h.session_token = None
    THEN Raise(h, Err.NotInitiated)
    ELSE Result(h, Ok, <<>>, NullResponse, NullResponse, h.session_token, NoRange)

\* variant: the end of the range is taken from the start group
response_range_start_twice(h) ==
    IF h.response_header.isNone
    THEN Raise(h, Err.NoRequest)
    ELSE IF \/ "Content-Range" \notin DOMAIN h.response_header.h
            \/ "Accept-Range" \notin DOMAIN h.response_header.h
    THEN Raise(h, Err.NoRange)
    ELSE LET match == ReMatchRange(h.response_header.h["Content-Range"])
             parts == PySplit(h.response_header.h["Accept-Range"])
         IN  IF Len(parts) < 2 THEN Raise(h, Err.Index)
             ELSE IF ~IsDecimal(parts[2]) THEN Raise(h, Err.Value)
             ELSE IF ~match.matched THEN Raise(h, Err.Attribute)
             ELSE Result(h, Ok, <<>>, NullResponse, NullResponse, None,
                         ResponseRange(StrToInt(match.start), StrToInt(match.start),
                                       StrToInt(match.count), StrToInt(parts[2])))

\* variant: the range is refused only when both headers are missing
response_range_both_missing(h) ==
    IF h.response_header.isNone
    THEN Raise(h, Err.NoRequest)
    ELSE IF /\ "Content-Range" \notin DOMAIN h.response_header.h
            /\ "Accept-Range" \notin DOMAIN h.response_header.h
    THEN Raise(h, Err.NoRange)
    ELSE IF \/ "Content-Range" \notin DOMAIN h.response_header.h
            \/ "Accept-Range" \notin DOMAIN h.response_header.h
    THEN Raise(h, Err.Key)
    ELSE LET match == ReMatchRange(h.response_header.h["Content-Range"])
             parts == PySplit(h.response_header.h["Accept-Range"])
         IN  IF Len(parts) < 2 THEN Raise(h, Err.Index)
             ELSE IF ~IsDecimal(parts[2]) THEN Raise(h, Err.Value)
             ELSE IF ~match.matched THEN Raise(h, Err.Attribute)
             ELSE Result(h, Ok, <<>>, NullResponse, NullResponse, None,
                         ResponseRange(StrToInt(match.start), StrToInt(match.end),
                                       StrToInt(match.count), StrToInt(parts[2])))

\* property RequestHandler.response_range
response_range_of(h) ==
    IF h.response_header.isNone
    THEN Raise(h, Err.NoRequest)
    ELSE IF \/ "Content-Range" \notin DOMAIN h.response_header.h
            \/ "Accept-Range" \notin DOMAIN h.response_header.h
    THEN Raise(h, Err.NoRange)
    ELSE LET content_range == h.response_header.h["Content-Range"]
             match == ReMatchRange(content_range)
             parts == PySplit(h.response_header.h["Accept-Range"])
         IN  IF Len(parts) < 2 THEN Raise(h, Err.Index)
             ELSE IF ~IsDecimal(parts[2]) THEN Raise(h, Err.Value)
             ELSE IF ~match.matched THEN Raise(h, Err.Attribute)
             ELSE Result(h, Ok, <<>>, NullResponse, NullResponse, None,
                         ResponseRange(StrToInt(match.start), StrToInt(match.end),
                                       StrToInt(match.count), StrToInt(parts[2])))

\* variant: the status of the response is not looked at
do_get_any_status(h, action, token, resp) ==
    LET req == Request("get", action, token)
        h1 == [h EXCEPT !.session = TRUE]
        h2 == [h1 EXCEPT !.response_header = Header(resp.headers)]
    IN  IF resp.status = NoResponse
        THEN Result(h1, Err.Connection, <<req>>, NullResponse, NullResponse, None, NoRange)
        ELSE Result(h2, Ok, <<req>>, resp, NullResponse, None, NoRange)

\* RequestHandler._do_get
do_get(h, action, token, resp) ==
    LET req == Request("get", action, token)
        h1 == [h EXCEPT !.session = TRUE]
        h2 == [h1 EXCEPT !.response_header = Header(resp.headers)]
    IN  IF resp.status = NoResponse
        THEN Result(h1, Err.Connection, <<req>>, NullResponse, NullResponse, None, NoRange)
        ELSE IF resp.status >= 400
        THEN Result(h2, Err.Request, <<req>>, resp, resp, None, NoRange)
        ELSE Result(h2, Ok, <<req>>, resp, NullResponse, None, NoRange)

\* r.json()["session_token"]
SessionTokenOfBody(body) ==
    IF ~IsJson(body) THEN [exc |-> Err.JSONDecode, tok |-> None]
    ELSE IF body.t # "dict" THEN [exc |-> Err.Type, tok |-> None]
    ELSE IF "session_token" \notin body.keys THEN [exc |-> Err.Key, tok |-> None]
    ELSE [exc |-> Ok, tok |-> body.token]

\* variant: no check for a session that is already open
init_session_unguarded(h, resp) ==
    LET r == do_get(h, "initSession", None, resp)
        t == SessionTokenOfBody(resp.body)
    IN  IF r.exc # Ok THEN r
        ELSE IF t.exc # Ok THEN [r EXCEPT !.exc = t.exc]
        ELSE [r EXCEPT !.h.session_token = t.tok]

\* RequestHandler.init_session
init_session(h, resp) ==
    IF h.session_token # None
    THEN Raise(h, Err.AlreadyInit)
    ELSE LET r == do_get(h, "initSession", None, resp)
             t == SessionTokenOfBody(resp.body)
         IN  IF r.exc # Ok THEN r
             ELSE IF t.exc # Ok THEN [r EXCEPT !.exc = t.exc]
             ELSE [r EXCEPT !.h.session_token = t.tok]

\* variant: the invalid-token answer is taken as a successful termination
KillSessionError_silent(resp) ==
    IF resp.status = 401
    THEN IF ~IsJson(resp.body) THEN Err.Request
         ELSE IF ~HasLen(resp.body) THEN Err.Type
         ELSE IF PyLen(resp.body) = 0 THEN Err.Request
         ELSE IF resp.body.t = "dict" THEN Err.Key
         ELSE IF resp.body.t = "list" /\ resp.body.items[1] = "ERROR_SESSION_TOKEN_INVALID"
         THEN Ok
         ELSE Err.Request
    ELSE Err.Request

\* the except GLPIRequestError clause of kill_session: the exception raised
\* for the failing response carried by the caught error
KillSessionError(resp) ==
    IF resp.status = 401
    THEN IF ~IsJson(resp.body) THEN Err.Request
         ELSE IF ~HasLen(resp.body) THEN Err.Type
         ELSE IF PyLen(resp.body) = 0 THEN Err.Request
         ELSE IF resp.body.t = "dict" THEN Err.Key
         ELSE IF resp.body.t = "list" /\ resp.body.items[1] = "ERROR_SESSION_TOKEN_INVALID"
         THEN Err.SessionExpired
         ELSE Err.Request
    ELSE Err.Request

\* variant: the stored token is removed only once the request has succeeded
kill_session_clear_late(h, session_id, resp) ==
    LET st == session_token_of(h)
        sid == IF session_id = None THEN st.tok ELSE session_id
        r == do_get(h, "killSession", sid, resp)
    IN  IF session_id = None /\ st.exc # Ok THEN st
        ELSE IF r.exc = Err.Request
        THEN LET e == KillSessionError(resp)
             IN  [r EXCEPT !.exc = e,
                           !.err = IF e = Err.Request THEN resp ELSE NullResponse]
        ELSE IF r.exc = Ok /\ session_id = None
        THEN [r EXCEPT !.h.session_token = None]
        ELSE r

\* RequestHandler.kill_session
kill_session(h, session_id, resp) ==
    LET st == session_token_of(h)
        sid == IF session_id = None THEN st.tok ELSE session_id
        h1 == IF session_id = None THEN [h EXCEPT !.session_token = None] ELSE h
        r == do_get(h1, "killSession", sid, resp)
    IN  IF session_id = None /\ st.exc # Ok THEN st
        ELSE IF r.exc = Err.Request
        THEN LET e == KillSessionError(resp)
             IN  [r EXCEPT !.exc = e,
                           !.err = IF e = Err.Request THEN resp ELSE NullResponse]
        ELSE r

\* RequestHandler._get_json
get_json(h, action, resp) ==
    LET st == session_token_of(h)
        r == do_get(h, action, st.tok, resp)
    IN  IF st.exc # Ok THEN st
        ELSE IF r.exc # Ok THEN r
        ELSE IF IsJson(resp.body) THEN r
        ELSE [r EXCEPT !.exc = IF resp.body.t = "blank" THEN Err.RequestBlank
                                ELSE Err.RequestNotJson,
                       !.err = resp]

\* the getters built on _get_json and the key each one reads from the
\* decoded document ("" when the document is returned as it is)
GetterKey ==
    [get_my_profiles |-> "myprofiles",
     get_active_profile |-> "active_profile",
     get_my_entities |-> "myentities",
     get_active_entities |-> "active_entity",
     get_full_session |-> "session",
     get_glpi_config |-> "cfg_glpi",
     get_item |-> "",
     get_many_items |-> "",
     get_sub_items |-> "",
     get_search_options |-> "",
     search_items |-> ""]
Getters == DOMAIN GetterKey

\* get_my_profiles ... search_items
getter(h, op, resp) ==
    LET r == get_json(h, op, resp)
        \* json[key] on the decoded document
        IndexBody(body) ==
            IF body.t # "dict" THEN Err.Type
            ELSE IF body = BodyExpected THEN Ok
            ELSE Err.Key
        \* json.get("data", []) in search_items: only a mapping has get
        SearchBody(body) == IF body.t = "dict" THEN Ok ELSE Err.Attribute
    IN  \* get_item: except requests.HTTPError as err: raise GLPIError(...)
        IF op = "get_item" /\ r.exc = Err.HTTP THEN [r EXCEPT !.exc = Err.ItemNotFound]
        ELSE IF r.exc # Ok THEN r
        ELSE IF GetterKey[op] # "" THEN [r EXCEPT !.exc = IndexBody(resp.body)]
        ELSE IF op = "search_items" THEN [r EXCEPT !.exc = SearchBody(resp.body)]
        ELSE r

\* a _do_method that sends a refused request once more
do_method_reissue(h, method, action, on_error_raise, resp) ==
    LET st == session_token_of(h)
        req == Request(method, action, st.tok)
        h1 == [h EXCEPT !.session = TRUE]
    IN  IF st.exc # Ok THEN st
        ELSE IF resp.status = NoResponse
        THEN Result(h1, Err.Connection, <<req>>, NullResponse, NullResponse, None, NoRange)
        ELSE IF on_error_raise /\ resp.status >= 400
        THEN Result(h1, Err.Request, <<req, req>>, resp, resp, None, NoRange)
        ELSE Result(h1, Ok, <<req>>, resp, NullResponse, None, NoRange)

\* RequestHandler._do_method
do_method(h, method, action, on_error_raise, resp) ==
    LET st == session_token_of(h)
        req == Request(method, action, st.tok)
        h1 == [h EXCEPT !.session = TRUE]
    IN  IF st.exc # Ok THEN st
        ELSE IF resp.status = NoResponse
        THEN Result(h1, Err.Connection, <<req>>, NullResponse, NullResponse, None, NoRange)
        ELSE IF on_error_raise /\ resp.status >= 400
        THEN Result(h1, Err.Request, <<req>>, resp, resp, None, NoRange)
        ELSE Result(h1, Ok, <<req>>, resp, NullResponse, None, NoRange)

\* the operations built on _do_method: HTTP method and on_error_raise
MethodOf ==
    [add_items |-> "post",
     update_items |-> "patch",
     delete_items |-> "delete",
     change_active_profile |-> "post",
     change_active_entity |-> "post",
     download_document |-> "get",
     download_user_profile_picture |-> "get"]
MethodOps == DOMAIN MethodOf
OnErrorRaise(op) == op \in {"add_items", "update_items", "delete_items"}

\* add_items, update_items, delete_items, change_active_profile,
\* change_active_entity, download_document, download_user_profile_picture
method_op(h, op, resp) ==
    LET r == do_method(h, MethodOf[op], op, OnErrorRaise(op), resp)
        \* r.json()[1] in change_active_entity
        EntityError(body) ==
            IF ~IsJson(body) THEN Err.JSONDecode
            ELSE IF body.t = "dict" THEN Err.Key
            ELSE IF body.t = "null" THEN Err.Type
            ELSE IF Len(body.items) < 2 THEN Err.Index
            ELSE Err.Entity
    IN  IF r.exc # Ok THEN r
        ELSE IF OnErrorRaise(op)
        THEN (IF IsJson(resp.body) THEN r ELSE [r EXCEPT !.exc = Err.JSONDecode])
        ELSE IF op = "change_active_profile" /\ resp.status = 404
        THEN [r EXCEPT !.exc = Err.ProfileNotFound]
        ELSE IF op = "change_active_entity" /\ resp.status = 400
        THEN [r EXCEPT !.exc = EntityError(resp.body)]
        ELSE IF op = "download_user_profile_picture" /\ resp.status = 204
        THEN [r EXCEPT !.exc = Err.NoPicture]
        ELSE r

\* RequestHandler.upload_document
upload_document(h, resp) ==
    LET st == session_token_of(h)
        req == Request("post", "Document/", st.tok)
        h1 == [h EXCEPT !.session = TRUE]
    IN  IF st.exc # Ok THEN st
        ELSE IF resp.status = NoResponse
        THEN Result(h1, Err.Connection, <<req>>, NullResponse, NullResponse, None, NoRange)
        ELSE IF resp.status >= 400
        THEN Result(h1, Err.HTTP, <<req>>, resp, NullResponse, None, NoRange)
        ELSE IF ~IsJson(resp.body)
        THEN Result(h1, Err.JSONDecode, <<req>>, resp, NullResponse, None, NoRange)
        ELSE Result(h1, Ok, <<req>>, resp, NullResponse, None, NoRange)

(***************************************************************************)
(* The environment: what the transport and the remote service answer.      *)
(* An answer is a status, a body and the range headers; NoAnswer is the    *)
(* transport raising instead of returning a response.                      *)
(***************************************************************************)
Ans(status, body, rg) == [status |-> status, body |-> body, rg |-> rg]
NoAnswer == Ans(NoResponse, BodyBlank, NoRng)
RespOf(ans) == Response(ans.status, ans.body, HeadersFor(ans.rg))

\* initSession: a new session and its token, a 2xx answer without a token,
\* a refusal, or no answer
InitAnswers(iss) ==
    (IF iss < MaxTokens THEN {Ans(200, BodySession(iss + 1), NoRng)} ELSE {})
    \cup {Ans(200, b, NoRng) : b \in {BodyBlank, BodyHtml, BodyOtherError, BodyEmptyObject}}
    \cup {Ans(st, b, NoRng) : st \in {x \in Statuses : x >= 400}, b \in {BodyOtherError, BodyHtml}}
    \cup {NoAnswer}

\* killSession: 200 terminates an active session; a token that is not active
\* is refused; the invalid-token answer is given to inactive tokens only
KillAnswers(t, active) ==
    LET ErrorBodies ==
            {BodyBlank, BodyHtml, BodyTokenInvalid, BodyOtherError, BodyEmptyObject,
             Body("list", <<>>, {}, None), Body("dict", <<>>, {"message"}, None),
             Body("str", <<"ERROR_SESSION_TOKEN_INVALID">>, {}, None),
             Body("null", <<>>, {}, None)}
        refusals == {Ans(401, b, NoRng) : b \in ErrorBodies}
                    \cup {Ans(st, b, NoRng) : st \in {401, 404, 500},
                                              b \in {BodyTokenInvalid, BodyHtml}}
    IN  IF t \in active
        THEN {Ans(200, BodyBlank, NoRng), NoAnswer}
             \cup {a \in refusals : a.body # BodyTokenInvalid}
        ELSE {NoAnswer} \cup refusals

\* the getters whose answer carries range headers ("methods that return
\* multiple items")
ListGetters == {"get_many_items", "get_sub_items", "search_items"}

\* the answers to the other requests, as far as the session model tells them
\* apart: the documented answer (with the range headers a list getter may
\* get), a refusal, or no answer
DataAnswers(op, rngs) ==
    {Ans(200, BodyExpected, rg) : rg \in IF op \in ListGetters THEN rngs ELSE {NoRng}}
    \cup {Ans(500, BodyOtherError, NoRng), NoAnswer}

(***************************************************************************)
(* Python values of arguments, criteria and request parameters.            *)
(* A value is a node: its type t, a number n (bool as 0/1, int), a text s  *)
(* (str), and for the containers the keys (dict, in insertion order) and   *)
(* the members vals (list, tuple, dict).                                   *)
(***************************************************************************)
Node(t, n, s, keys, vals) == [t |-> t, n |-> n, s |-> s, keys |-> keys, vals |-> vals]
PyNone == Node("none", 0, <<>>, <<>>, <<>>)
PyBool(b) == Node("bool", IF b THEN 1 ELSE 0, <<>>, <<>>, <<>>)
PyInt(n) == Node("int", n, <<>>, <<>>, <<>>)
PyStr(s) == Node("str", 0, s, <<>>, <<>>)
PyList(vals) == Node("list", 0, <<>>, <<>>, vals)
PyTuple(vals) == Node("tuple", 0, <<>>, <<>>, vals)
PyDict(keys, vals) == Node("dict", 0, <<>>, keys, vals)
\* SortOrder.Ascending = "ASC", SortOrder.Descending = "DESC"
Ascending == Node("SortOrder", 0, <<"A", "S", "C">>, <<>>, <<>>)
Descending == Node("SortOrder", 0, <<"D", "E", "S", "C">>, <<>>, <<>>)
\* a value that is neither a mapping, a sequence nor a scalar (a set, an object)
PyObject == Node("object", 0, <<>>, <<>>, <<>>)

IsScalar(v) == v.t \in {"none", "bool", "int", "str", "SortOrder"}

\* a == b : bool and int compare by number (True == 1), other values by
\* type and content
PyEq(a, b) ==
    IF a.t \in {"bool", "int"} /\ b.t \in {"bool", "int"} THEN a.n = b.n ELSE a = b

\* truth value of a value (if v: / not v)
PyTruthy(v) ==
    CASE v.t = "none" -> FALSE
      [] v.t \in {"bool", "int"} -> v.n # 0
      [] v.t = "str" -> Len(v.s) > 0
      [] v.t \in {"list", "tuple", "dict"} -> Len(v.vals) > 0
      [] OTHER -> TRUE

\* "-".join(str(r) for r in items), items being ints
RECURSIVE JoinDash(_)
JoinDash(items) ==
    IF Len(items) = 0 THEN <<>>
    ELSE IF Len(items) = 1 THEN IntToStr(items[1].n)
    ELSE IntToStr(items[1].n) \o <<"-">> \o JoinDash(Tail(items))

(***************************************************************************)
(* Request parameters: a list of (key, value).  A key is a name, followed  *)
(* by "[]" (arr) or by the bracketed components of a path; a component is  *)
(* a mapping key k or a sequence index i.                                  *)
(***************************************************************************)
KeyComp(k) == [k |-> k, i |-> -1]
IdxComp(i) == [k |-> "", i |-> i]
Key(name, arr, path) == [name |-> name, arr |-> arr, path |-> path]
Param(key, value) == [key |-> key, value |-> value]

\* the declared parameters of an operation, in the order of its signature:
\* name, whether a default is declared, the default
Required(name) == [name |-> name, has_default |-> FALSE, default |-> PyNone]
Optional(name, default) == [name |-> name, has_default |-> TRUE, default |-> default]

Signature ==
    [get_item |->
        <<Required("item_type"), Required("id_"),
          Optional("expand_dropdowns", PyBool(FALSE)), Optional("get_hateoas", PyBool(TRUE)),
          Optional("get_sha1", PyBool(FALSE)), Optional("with_devices", PyBool(FALSE)),
          Optional("with_disks", PyBool(FALSE)), Optional("with_softwares", PyBool(FALSE)),
          Optional("with_connections", PyBool(FALSE)), Optional("with_networkports", PyBool(FALSE)),
          Optional("with_infocoms", PyBool(FALSE)), Optional("with_contracts", PyBool(FALSE)),
          Optional("with_documents", PyBool(FALSE)), Optional("with_tickets", PyBool(FALSE)),
          Optional("with_problems", PyBool(FALSE)), Optional("with_changes", PyBool(FALSE)),
          Optional("with_notes", PyBool(FALSE)), Optional("with_logs", PyBool(FALSE)),
          Optional("add_key_names", PyNone)>>,
     get_many_items |->
        <<Required("item_type"),
          Optional("expand_dropdowns", PyBool(FALSE)), Optional("get_hateoas", PyBool(TRUE)),
          Optional("only_id", PyBool(FALSE)), Optional("range_", PyNone),
          Optional("sort_by", PyNone), Optional("order", PyNone),
          Optional("filter_by", PyNone), Optional("is_deleted", PyBool(FALSE)),
          Optional("add_key_names", PyNone)>>,
     get_sub_items |->
        <<Required("item_type"), Required("item_id"), Required("sub_item_type"),
          Optional("expand_dropdowns", PyBool(FALSE)), Optional("get_hateoas", PyBool(TRUE)),
          Optional("only_id", PyBool(FALSE)), Optional("range_", PyNone),
          Optional("sort_by", PyNone), Optional("order", PyNone),
          Optional("add_key_names", PyNone)>>,
     get_search_options |->
        <<Required("item_type"), Optional("raw", PyBool(FALSE)), Optional("pretty", PyBool(FALSE))>>,
     search_items |->
        <<Required("item_type"),
          Optional("filters", PyNone), Optional("sort_by_id", PyNone),
          Optional("order", PyNone), Optional("range_", PyNone),
          Optional("force_display", PyNone), Optional("raw_data", PyBool(FALSE)),
          Optional("with_indexes", PyBool(FALSE)), Optional("uid_cols", PyBool(FALSE)),
          Optional("give_items", PyBool(FALSE))>>]

\* the rename table each operation passes to the builder
Rename ==
    [get_item |-> [add_key_names |-> "add_keys_names"],
     get_many_items |-> [range_ |-> "range", add_key_names |-> "add_keys_names", sort_by |-> "sort"],
     get_sub_items |-> [range_ |-> "range", add_key_names |-> "add_keys_names", sort_by |-> "sort"],
     get_search_options |-> [x \in {} |-> ""],
     search_items |-> [sort_by_id |-> "sort", range_ |-> "range", force_display |-> "forcedisplay",
                       raw_data |-> "rawdata", with_indexes |-> "withindexes",
                       give_items |-> "giveItems"]]

\* variant: the rename table is ignored
WireName_not_renamed(rename, name) == name

\* parameter_name = rename[parameter_name] if it is in rename
WireName(rename, name) == IF name \in DOMAIN rename THEN rename[name] ELSE name

\* variant: the elements are emitted last to first
ArrayParams_reversed(name, vals) ==
    [i \in 1..Len(vals) |-> Param(Key(name, TRUE, <<>>), vals[Len(vals) + 1 - i])]

\* for item in parameter_value: request_parameters.append((parameter_name + "[]", item))
ArrayParams(name, vals) == [i \in 1..Len(vals) |-> Param(Key(name, TRUE, <<>>), vals[i])]

\* variant: every optional argument is emitted, equal to its default or not
ParamsOfOne_every_optional(p, value, rename) ==
    IF p.has_default
    THEN IF value.t \in {"list", "tuple"}
         THEN ArrayParams(WireName(rename, p.name), value.vals)
         ELSE <<Param(Key(WireName(rename, p.name), FALSE, <<>>), value)>>
    ELSE <<>>

\* the parameters the builder emits for one declared parameter
ParamsOfOne(p, value, rename) ==
    IF p.has_default /\ ~PyEq(value, p.default)
    THEN IF value.t \in {"list", "tuple"}
         THEN ArrayParams(WireName(rename, p.name), value.vals)
         ELSE <<Param(Key(WireName(rename, p.name), FALSE, <<>>), value)>>
    ELSE <<>>

RECURSIVE BuildFrom(_, _, _, _)
BuildFrom(sig, i, locals, rename) ==
    IF i > Len(sig) THEN <<>>
    ELSE ParamsOfOne(sig[i], locals[sig[i].name], rename)
         \o BuildFrom(sig, i + 1, locals, rename)

\* RequestHandler.__get_request_parameters: sig is the signature of the
\* calling method, locals its local variables at the time of the call
get_request_parameters(sig, locals, rename) == BuildFrom(sig, 1, locals, rename)

\* the outcome of assembling parameters: the exception raised, if any, and
\* the list as it then is
Built(exc, parameters) == [exc |-> exc, parameters |-> parameters]

\* add_criteria_to_parameters(criteria, parameters, father): father is the
\* path below "criteria"
RECURSIVE add_criteria_to_parameters(_, _, _)
RECURSIVE DictItems(_, _, _, _)
RECURSIVE ListItems(_, _, _, _)
add_criteria_to_parameters(criteria, parameters, father) ==
    IF criteria.t = "dict" THEN DictItems(criteria, 1, parameters, father)
    ELSE IF criteria.t = "list" THEN ListItems(criteria, 1, parameters, father)
    ELSE Built(Err.NotImplemented, parameters)

\* for key, value in criteria.items(): ...  from the i-th item on
DictItems(criteria, i, parameters, father) ==
    IF i > Len(criteria.keys) THEN Built(Ok, parameters)
    ELSE LET path == Append(father, KeyComp(criteria.keys[i]))
             value == criteria.vals[i]
             r == IF value.t = "list"
                  THEN add_criteria_to_parameters(value, parameters, path)
                  ELSE Built(Ok, Append(parameters, Param(Key("criteria", FALSE, path), value)))
         IN  IF r.exc # Ok THEN r ELSE DictItems(criteria, i + 1, r.parameters, father)

\* variant: the members are numbered from 1
ListItems_from_one(criteria, i, parameters, father) ==
    IF i > Len(criteria.vals) THEN Built(Ok, parameters)
    ELSE LET r == add_criteria_to_parameters(criteria.vals[i], parameters,
                                             Append(father, IdxComp(i)))
         IN  IF r.exc # Ok THEN r ELSE ListItems(criteria, i + 1, r.parameters, father)

\* for i in range(len(criteria)): ...  from the i-th member on
ListItems(criteria, i, parameters, father) ==
    IF i > Len(criteria.vals) THEN Built(Ok, parameters)
    ELSE LET r == add_criteria_to_parameters(criteria.vals[i], parameters,
                                             Append(father, IdxComp(i - 1)))
         IN  IF r.exc # Ok THEN r ELSE ListItems(criteria, i + 1, r.parameters, father)

\* the local variables of an operation when it calls the builder: the
\* arguments after the statements that precede the call
Locals(args) ==
    [n \in DOMAIN args |->
        CASE n = "range_" /\ args[n].t # "none" -> PyStr(JoinDash(args[n].vals))
          [] n = "is_deleted" /\ PyTruthy(args[n]) -> PyInt(1)
          [] n = "get_hateoas" /\ ~PyTruthy(args[n]) -> PyInt(0)
          [] n = "filters" -> PyNone
          [] OTHER -> args[n]]

\* the parameter list get_item, get_many_items, get_sub_items,
\* get_search_options and search_items hand to _get_json
request_parameters(op, args) ==
    LET built == get_request_parameters(Signature[op], Locals(args), Rename[op])
        \* for name in filter_by:
        \*     request_parameters.append((f"searchText[{name}]", filter_by[name]))
        SearchText(filter_by) ==
            [i \in 1..Len(filter_by.keys) |->
                Param(Key("searchText", FALSE, <<KeyComp(filter_by.keys[i])>>),
                      filter_by.vals[i])]
    IN  CASE op = "get_many_items" ->
               Built(Ok, IF PyTruthy(args["filter_by"])
                         THEN built \o SearchText(args["filter_by"]) ELSE built)
          [] op = "search_items" ->
               add_criteria_to_parameters(IF PyTruthy(args["filters"]) THEN args["filters"]
                                          ELSE PyList(<<>>),
                                          built, <<>>)
          [] OTHER -> Built(Ok, built)

(***************************************************************************)
(* The arguments the operations are called with.                           *)
(***************************************************************************)
MaxListLen == 2
MaxNonDefault == 2
MaxCriteria == 2

\* the sequences over S of length up to n
RECURSIVE SeqsUpTo(_, _)
SeqsUpTo(S, n) ==
    IF n = 0 THEN {<<>>}
    ELSE LET shorter == SeqsUpTo(S, n - 1)
         IN  shorter \cup {Append(q, x) : q \in shorter, x \in S}

\* a search criterion {"field": f, "value": "x"} and a group of criteria
\* {"link": "AND", "criteria": [...]}
Criterion(f) == PyDict(<<"field", "value">>, <<PyInt(f), PyStr(<<"x">>)>>)
Group(cs) == PyDict(<<"link", "criteria">>, <<PyStr(<<"A", "N", "D">>), PyList(cs)>>)

RequiredValue == PyInt(1)

\* the values an argument is given
ArgValues(p) ==
    LET FlagValues == {PyBool(FALSE), PyBool(TRUE), PyInt(1)}
        \* add_key_names, force_display: None, a list or a tuple
        SequenceValues ==
            {PyNone} \cup {PyList(q) : q \in SeqsUpTo({PyInt(1), PyInt(2)}, MaxListLen)}
                     \cup {PyTuple(q) : q \in SeqsUpTo({PyInt(1), PyInt(2)}, MaxListLen)}
        RangeValues ==
            {PyNone, PyTuple(<<PyInt(0), PyInt(1)>>), PyList(<<PyInt(5), PyInt(MaxNum)>>)}
        SortValues == {PyNone, PyInt(0), PyInt(2)}
        OrderValues == {PyNone, Ascending, Descending}
        FilterByValues ==
            {PyNone, PyDict(<<>>, <<>>), PyDict(<<"name">>, <<PyStr(<<"a">>)>>),
             PyDict(<<"name", "serial">>, <<PyStr(<<"a">>), PyInt(1)>>)}
        \* filters: None or a list of criteria and groups
        Criteria == {Criterion(f) : f \in 1..2}
        Groups == {Group(cs) : cs \in SeqsUpTo(Criteria, MaxCriteria) \ {<<>>}}
        FilterValues ==
            {PyNone} \cup {PyList(q) : q \in SeqsUpTo(Criteria \cup Groups, MaxCriteria)}
    IN  CASE ~p.has_default -> {RequiredValue}
          [] p.name \in {"add_key_names", "force_display"} -> SequenceValues
          [] p.name = "range_" -> RangeValues
          [] p.name \in {"sort_by", "sort_by_id"} -> SortValues
          [] p.name = "order" -> OrderValues
          [] p.name = "filter_by" -> FilterByValues
          [] p.name = "filters" -> FilterValues
          [] OTHER -> FlagValues

SigNames(sig) == {sig[i].name : i \in 1..Len(sig)}
SigOf(sig, name) == CHOOSE p \in {sig[i] : i \in 1..Len(sig)} : p.name = name
DefaultValue(p) == IF p.has_default THEN p.default ELSE RequiredValue

\* the calls that give a value of their own to up to k of the arguments
\* declared from the i-th place of the signature on
RECURSIVE Overrides(_, _, _)
Overrides(sig, i, k) ==
    IF i > Len(sig) THEN {<<>>}
    ELSE LET p == sig[i]
             own == ArgValues(p) \ {DefaultValue(p)}
         IN  {<<DefaultValue(p)>> \o q : q \in Overrides(sig, i + 1, k)}
             \cup (IF k = 0 THEN {}
                   ELSE {<<v>> \o q : v \in own, q \in Overrides(sig, i + 1, k - 1)})
\* the arguments by name
Named(sig, values) == [n \in SigNames(sig) |-> values[CHOOSE i \in 1..Len(sig) : sig[i].name = n]]
ArgsOf(op) == {Named(Signature[op], q) : q \in Overrides(Signature[op], 1, MaxNonDefault)}

(***************************************************************************)
(* State.                                                                  *)
(***************************************************************************)
VARIABLES
    session_token,    \* self.__session_token
    session,          \* self.__session has been created
    response_header,  \* self.__response_header
    remote_active,    \* tokens of the sessions alive on the remote service
    issued,           \* number of tokens the remote has issued so far
    ctx,              \* the with-block: inside or not, token obtained on enter
    last_call,        \* the most recent call of a public operation and its outcome
    wire,             \* range headers of the most recent response received
    kill_requested,   \* tokens for which a killSession request was sent
    terminated,       \* tokens whose kill_session call returned normally
    last_killed,      \* token terminated by the call just before, or None
    next_rng,         \* range headers of the remote's next list answer (SpecParse)
    built,            \* the parameters assembled by the most recent getter call
    flat,             \* the most recent call of add_criteria_to_parameters
    coerced,          \* the records of the most recent search answer, as returned
    options           \* the most recent search options answer, as returned

vars == <<session_token, session, response_header, remote_active, issued, ctx,
          last_call, wire, kill_requested, terminated, last_killed, next_rng,
          built, flat, coerced, options>>

Self == Handler(session_token, session, response_header)

NoCall ==
    [op |-> "", arg |-> None, exc |-> Ok, nreq |-> 0, req_tok |-> None,
     tok_before |-> None, hdr_kept |-> TRUE, status |-> NoResponse,
     body |-> BodyBlank, err_kept |-> FALSE, tok |-> None, range |-> NoRange,
     again |-> FALSE, body_exc |-> FALSE]

\* no call with arguments has been made
NoPure ==
    /\ built = [op |-> "", args |-> [item_type |-> PyNone], exc |-> Ok,
                parameters |-> <<>>, sent |-> FALSE, data |-> PyNone]
    /\ flat = [called |-> FALSE, criteria |-> PyNone, exc |-> Ok, parameters |-> <<>>]
    /\ coerced = [called |-> FALSE, with_indexes |-> FALSE,
                  data |-> [data |-> <<>>, data_html |-> <<>>],
                  result |-> [data |-> <<>>, data_html |-> <<>>]]
    /\ options = [called |-> FALSE, pretty |-> FALSE, json |-> PyNone, result |-> PyNone]

Init ==
    /\ session_token = NewHandler.session_token
    /\ session = NewHandler.session
    /\ response_header = NewHandler.response_header
    /\ remote_active = {}
    /\ issued = 0
    /\ ctx = [in |-> FALSE, token |-> None]
    /\ last_call = NoCall
    /\ wire = [received |-> FALSE, rg |-> NoRng]
    /\ kill_requested = {}
    /\ terminated = {}
    /\ last_killed = None
    /\ next_rng = NoRng
    /\ NoPure

IsKill(op) == op \in {"kill_session", "__exit__"}

\* the effect of one call of a public operation: r is the result computed by
\* the handler's code for the answer ans, exc the exception reaching the caller
Effect(op, arg, r, ans, exc, body_exc) ==
    LET sent == Len(r.reqs) > 0
        req == r.reqs[1]
        answered == sent /\ ans.status # NoResponse
    IN  /\ session_token' = r.h.session_token
        /\ session' = r.h.session
        /\ response_header' = r.h.response_header
        /\ remote_active' =
              IF answered /\ req.action = "initSession" /\ ans.status = 200
                 /\ ans.body.t = "dict" /\ "session_token" \in ans.body.keys
              THEN remote_active \cup {ans.body.token}
              ELSE IF answered /\ req.action = "killSession" /\ ans.status = 200
              THEN remote_active \ {req.token}
              ELSE remote_active
        /\ issued' =
              IF answered /\ req.action = "initSession" /\ ans.status = 200
                 /\ ans.body.t = "dict" /\ "session_token" \in ans.body.keys
              THEN issued + 1 ELSE issued
        /\ last_call' =
              [op |-> op, arg |-> arg, exc |-> exc, nreq |-> Len(r.reqs),
               req_tok |-> IF sent THEN req.token ELSE None,
               tok_before |-> session_token,
               hdr_kept |-> (r.h.response_header = response_header),
               status |-> IF sent THEN ans.status ELSE NoResponse,
               body |-> IF sent THEN ans.body ELSE BodyBlank,
               err_kept |-> (answered /\ r.err = RespOf(ans)),
               tok |-> r.tok, range |-> r.range,
               again |-> (IsKill(op) /\ last_killed # None
                          /\ (sent => req.token = last_killed)),
               body_exc |-> body_exc]
        /\ wire' = IF answered THEN [received |-> TRUE, rg |-> ans.rg] ELSE wire
        /\ kill_requested' =
              IF sent /\ req.action = "killSession" /\ req.token \in (1..MaxTokens)
              THEN kill_requested \cup {req.token} ELSE kill_requested
        /\ terminated' =
              IF IsKill(op) /\ r.exc = Ok THEN terminated \cup {req.token} ELSE terminated
        /\ last_killed' = IF IsKill(op) /\ r.exc = Ok THEN req.token ELSE None
        /\ UNCHANGED next_rng

\* a call that takes no arguments of the kinds recorded in built, flat, coerced
Call(op, arg, r, ans, exc, body_exc) ==
    /\ Effect(op, arg, r, ans, exc, body_exc)
    /\ UNCHANGED <<built, flat, coerced, options>>

\* the answer given to the request the call sends; NoAnswer when it sends none
Answered(r, ans, answers) ==
    IF Len(r.reqs) = 0 THEN ans = NoAnswer ELSE ans \in answers

(***************************************************************************)
(* Operations.                                                             *)
(***************************************************************************)
InitSession ==
    \E ans \in InitAnswers(issued) :
        LET r == init_session(Self, RespOf(ans))
        IN  /\ Answered(r, ans, InitAnswers(issued))
            /\ Call("init_session", None, r, ans, r.exc, FALSE)
            /\ UNCHANGED ctx

KillSession ==
    \E ans \in KillAnswers(session_token, remote_active) :
        LET r == kill_session(Self, None, RespOf(ans))
        IN  /\ Answered(r, ans, KillAnswers(session_token, remote_active))
            /\ Call("kill_session", None, r, ans, r.exc, FALSE)
            /\ UNCHANGED ctx

\* kill_session(session_id): a token the caller has seen, or any other string
KillSessionId ==
    \E sid \in (1..issued) \cup {(MaxTokens + 1)} :
        \E ans \in KillAnswers(sid, remote_active) :
            LET r == kill_session(Self, sid, RespOf(ans))
            IN  /\ Answered(r, ans, KillAnswers(sid, remote_active))
                /\ Call("kill_session", sid, r, ans, r.exc, FALSE)
                /\ UNCHANGED ctx

ReadSessionToken ==
    LET r == session_token_of(Self)
    IN  /\ Call("session_token", None, r, NoAnswer, r.exc, FALSE)
        /\ UNCHANGED ctx

ReadResponseRange ==
    LET r == response_range_of(Self)
    IN  /\ Call("response_range", None, r, NoAnswer, r.exc, FALSE)
        /\ UNCHANGED ctx

GetterWith(rngs) ==
    \E op \in Getters :
        \E ans \in DataAnswers(op, rngs) :
            LET r == getter(Self, op, RespOf(ans))
            IN  /\ Answered(r, ans, DataAnswers(op, rngs))
                /\ Call(op, None, r, ans, r.exc, FALSE)
                /\ UNCHANGED ctx

MethodOp ==
    \E op \in MethodOps :
        \E ans \in DataAnswers(op, {NoRng}) :
            LET r == method_op(Self, op, RespOf(ans))
            IN  /\ Answered(r, ans, DataAnswers(op, {NoRng}))
                /\ Call(op, None, r, ans, r.exc, FALSE)
                /\ UNCHANGED ctx

UploadDocument ==
    \E ans \in DataAnswers("upload_document", {NoRng}) :
        LET r == upload_document(Self, RespOf(ans))
        IN  /\ Answered(r, ans, DataAnswers("upload_document", {NoRng}))
            /\ Call("upload_document", None, r, ans, r.exc, FALSE)
            /\ UNCHANGED ctx

\* RequestHandler.__enter__ : with handler: ...
Enter ==
    /\ ~ctx.in
    /\ \E ans \in InitAnswers(issued) :
        LET r == init_session(Self, RespOf(ans))
        IN  /\ Answered(r, ans, InitAnswers(issued))
            /\ Call("__enter__", None, r, ans, r.exc, FALSE)
            /\ ctx' = IF r.exc = Ok THEN [in |-> TRUE, token |-> r.h.session_token]
                      ELSE ctx

\* RequestHandler.__exit__ : the body has ended, normally or by raising
\* (body_exc); the exception of kill_session, if any, is the one that
\* leaves the with statement
Exit ==
    /\ ctx.in
    /\ \E body_exc \in BOOLEAN :
        \E ans \in KillAnswers(session_token, remote_active) :
            LET r == kill_session(Self, None, RespOf(ans))
                exc == IF r.exc # Ok THEN r.exc ELSE IF body_exc THEN Err.Body ELSE Ok
            IN  /\ Answered(r, ans, KillAnswers(session_token, remote_active))
                /\ Call("__exit__", None, r, ans, exc, body_exc)
                /\ ctx' = [in |-> FALSE, token |-> ctx.token]

\* the remote service ends a session on its own (expiry)
RemoteExpire ==
    /\ \E t \in remote_active : remote_active' = remote_active \ {t}
    /\ UNCHANGED <<session_token, session, response_header, issued, ctx, last_call,
                   wire, kill_requested, terminated, last_killed, next_rng,
                   built, flat, coerced, options>>

\* the getters in the session model: no range headers
Getter == GetterWith({NoRng})

Next ==
    \/ InitSession
    \/ KillSession
    \/ KillSessionId
    \/ ReadSessionToken
    \/ Getter
    \/ MethodOp
    \/ UploadDocument
    \/ Enter
    \/ Exit
    \/ RemoteExpire

Spec == Init /\ [][Next]_vars

(***************************************************************************)
(* The recording of the response headers: the same handler, the list       *)
(* getters answered with and without range headers, response_range read    *)
(* between the calls.                                                      *)
(***************************************************************************)
GetterRange == GetterWith(ListRngs)

NextRange ==
    \/ InitSession
    \/ KillSession
    \/ GetterRange
    \/ MethodOp
    \/ UploadDocument
    \/ ReadResponseRange

SpecRange == Init /\ [][NextRange]_vars

(***************************************************************************)
(* The parsing of the range headers: the remote's list answer carries      *)
(* Content-Range "<s>-<e>/<c>" and Accept-Range "<unit> <m>" for numbers   *)
(* up to MaxNum; the handler opens a session, gets the list and reads      *)
(* response_range.                                                         *)
(***************************************************************************)
InitParse ==
    /\ session_token = NewHandler.session_token
    /\ session = NewHandler.session
    /\ response_header = NewHandler.response_header
    /\ remote_active = {}
    /\ issued = 0
    /\ ctx = [in |-> FALSE, token |-> None]
    /\ last_call = NoCall
    /\ wire = [received |-> FALSE, rg |-> NoRng]
    /\ kill_requested = {}
    /\ terminated = {}
    /\ last_killed = None
    /\ next_rng \in BoundedRngs
    /\ NoPure

\* init_session, accepted by the remote
OpenSession ==
    /\ issued = 0
    /\ LET ans == Ans(200, BodySession(1), NoRng)
           r == init_session(Self, RespOf(ans))
       IN  /\ Call("init_session", None, r, ans, r.exc, FALSE)
           /\ UNCHANGED ctx

\* get_many_items, get_sub_items or search_items, answered with the range headers
GetList ==
    /\ session_token # None
    /\ wire.rg # next_rng
    /\ \E op \in ListGetters :
        LET ans == Ans(206, BodyExpected, next_rng)
            r == getter(Self, op, RespOf(ans))
        IN  /\ Call(op, None, r, ans, r.exc, FALSE)
            /\ UNCHANGED ctx

ReadRange ==
    /\ wire.rg = next_rng
    /\ last_call.op # "response_range"
    /\ ReadResponseRange

NextParse ==
    \/ OpenSession
    \/ GetList
    \/ ReadRange

SpecParse == InitParse /\ [][NextParse]_vars

(***************************************************************************)
(* The getters that take optional arguments: the handler opens a session   *)
(* and calls get_item, get_many_items, get_sub_items, get_search_options   *)
(* or search_items once, with up to MaxNonDefault arguments given a value. *)
(* The parameter list depends on the arguments only.                       *)
(***************************************************************************)
GetWithArgs ==
    /\ session_token # None
    /\ built.op = ""
    /\ \E op \in DOMAIN Signature :
        \E args \in ArgsOf(op) :
            LET p == request_parameters(op, args)
                ans == Ans(200, BodyExpected, NoRng)
                r == getter(Self, op, RespOf(ans))
            IN  /\ IF p.exc # Ok
                   THEN /\ last_call' = [NoCall EXCEPT !.op = op, !.exc = p.exc]
                        /\ UNCHANGED <<session_token, session, response_header,
                                       remote_active, issued, wire, kill_requested,
                                       terminated, last_killed, next_rng>>
                   ELSE Effect(op, None, r, ans, r.exc, FALSE)
                /\ built' = [op |-> op, args |-> args, exc |-> p.exc,
                             parameters |-> p.parameters,
                             sent |-> (p.exc = Ok /\ Len(r.reqs) > 0),
                             data |-> PyNone]
                /\ UNCHANGED <<ctx, flat, coerced, options>>

NextParams ==
    \/ OpenSession
    \/ GetWithArgs

SpecParams == Init /\ [][NextParams]_vars

(***************************************************************************)
(* add_criteria_to_parameters called on any tree of up to MaxNodes nodes:  *)
(* lists and dicts over an int, a str and a value of no supported type.    *)
(***************************************************************************)
MaxNodes == 4
\* Trees(n): the trees whose members, counted at every level, number up to n;
\* Forests(n): the sequences of trees that make up to n members
RECURSIVE Trees(_)
RECURSIVE Forests(_)
RECURSIVE ForestsHeaded(_, _)
Trees(n) ==
    LET Leaves == {PyInt(1), PyStr(<<"x">>), PyObject}
        DictKeys == <<"field", "value", "link", "criteria", "itemtype", "meta",
                      "searchtype", "name">>
    IN  IF n = 0 THEN Leaves
        ELSE Leaves \cup {PyList(q) : q \in Forests(n)}
                    \cup {PyDict(SubSeq(DictKeys, 1, Len(q)), q) : q \in Forests(n)}
Forests(n) == {<<>>} \cup ForestsHeaded(n, 0)
\* the forests of up to n members whose first tree is in Trees(k) or beyond
ForestsHeaded(n, k) ==
    IF k >= n THEN {}
    ELSE {<<t>> \o f : t \in Trees(k), f \in Forests(n - 1 - k)} \cup ForestsHeaded(n, k + 1)

Flatten ==
    /\ ~flat.called
    /\ \E criteria \in Trees(MaxNodes) :
        LET r == add_criteria_to_parameters(criteria, <<>>, <<>>)
        IN  flat' = [called |-> TRUE, criteria |-> criteria, exc |-> r.exc,
                     parameters |-> r.parameters]
    /\ UNCHANGED <<session_token, session, response_header, remote_active, issued, ctx,
                   last_call, wire, kill_requested, terminated, last_killed, next_rng,
                   built, coerced, options>>

NextCriteria == Flatten

SpecCriteria == Init /\ [][NextCriteria]_vars

(***************************************************************************)
(* The records of a search answer.  A record is a dict, kept as the list   *)
(* of its entries (key k, value v) in insertion order; the keys of a       *)
(* decoded JSON object are strings.                                        *)
(***************************************************************************)
MaxKeyLen == 2
MaxKeys == 2
Entry(k, v) == [k |-> k, v |-> v]

\* s.strip()
RECURSIVE Strip(_)
Strip(s) ==
    IF Len(s) > 0 /\ IsSpace(s[1]) THEN Strip(Tail(s))
    ELSE IF Len(s) > 0 /\ IsSpace(s[Len(s)]) THEN Strip(SubSeq(s, 1, Len(s) - 1))
    ELSE s

\* int(s) for a str: surrounding blanks, an optional sign, then digits, which
\* single underscores may separate; anything else is a ValueError
PyIntOf(s) ==
    LET t == Strip(s)
        signed == Len(t) > 0 /\ t[1] \in {"+", "-"}
        body == IF signed THEN Tail(t) ELSE t
        digits == SelectSeq(body, IsDigit)
        ok == /\ Len(body) > 0
              /\ IsDigit(body[1]) /\ IsDigit(body[Len(body)])
              /\ \A i \in 1..Len(body) :
                    \/ IsDigit(body[i])
                    \/ body[i] = "_" /\ body[i + 1] # "_"
    IN  [ok |-> ok,
         n |-> IF ~ok THEN 0
               ELSE IF signed /\ t[1] = "-" THEN 0 - StrToInt(digits) ELSE StrToInt(digits)]

\* for k, v in list(dict_.items()): ...  from the i-th item of the snapshot on
RECURSIVE KeysToIntFrom(_, _, _)
KeysToIntFrom(items, i, dict_) ==
    IF i > Len(items) THEN dict_
    ELSE LET k == items[i].k
             v == items[i].v
             parsed == PyIntOf(k.s)
             \* del dict_[k]
             DictDel(d, key) == SelectSeq(d, LAMBDA e : e.k # key)
             \* dict_[i] = v : a key already there keeps its place
             DictSet(d, key, val) ==
                 IF \E j \in 1..Len(d) : d[j].k = key
                 THEN [j \in 1..Len(d) |-> IF d[j].k = key THEN Entry(key, val) ELSE d[j]]
                 ELSE Append(d, Entry(key, val))
         IN  IF parsed.ok
             THEN KeysToIntFrom(items, i + 1, DictSet(DictDel(dict_, k), PyInt(parsed.n), v))
             ELSE KeysToIntFrom(items, i + 1, dict_)

\* RequestHandler.__keys_to_int
keys_to_int(dict_) == KeysToIntFrom(dict_, 1, dict_)

\* the end of search_items: the decoded document with its records converted
\* unless with_indexes is true
search_items_result(json, with_indexes) ==
    IF ~PyTruthy(with_indexes)
    THEN [data |-> [i \in 1..Len(json.data) |-> keys_to_int(json.data[i])],
          data_html |-> [i \in 1..Len(json.data_html) |-> keys_to_int(json.data_html[i])]]
    ELSE json

\* the documents the remote may answer: records of up to MaxKeys distinct
\* keys of up to MaxKeyLen characters, the i-th with the value i, alone or
\* after the record {"1": "a", "foo": "b"}; under "data" only, under
\* "data_html" only, or under both
Documents ==
    LET KeyStrings == SeqsUpTo({"0", "1", "-", "f"}, MaxKeyLen)
        RecordOf(keys) == [i \in 1..Len(keys) |-> Entry(PyStr(keys[i]), PyInt(i))]
        Records ==
            {RecordOf(q) : q \in {q \in SeqsUpTo(KeyStrings, MaxKeys) :
                                     \A i, j \in 1..Len(q) : i # j => q[i] # q[j]}}
        SampleRecord == <<Entry(PyStr(<<"1">>), PyStr(<<"a">>)),
                          Entry(PyStr(<<"f", "o", "o">>), PyStr(<<"b">>))>>
        RecordLists == {<<>>} \cup {<<rec>> : rec \in Records}
                              \cup {<<SampleRecord, rec>> : rec \in Records}
    IN  {[data |-> q, data_html |-> <<>>] : q \in RecordLists}
        \cup {[data |-> <<>>, data_html |-> q] : q \in RecordLists}
        \cup {[data |-> q, data_html |-> q] : q \in RecordLists}

\* search_items(item_type, with_indexes=w) in an open session, answered
\* with a document
SearchAnswered ==
    /\ session_token # None
    /\ ~coerced.called
    /\ \E json \in Documents, w \in BOOLEAN :
        LET args == [Named(Signature["search_items"],
                           [i \in 1..Len(Signature["search_items"]) |->
                               DefaultValue(Signature["search_items"][i])])
                     EXCEPT !["with_indexes"] = PyBool(w)]
            p == request_parameters("search_items", args)
            ans == Ans(200, BodyExpected, NoRng)
            r == getter(Self, "search_items", RespOf(ans))
        IN  /\ Effect("search_items", None, r, ans, r.exc, FALSE)
            /\ built' = [op |-> "search_items", args |-> args, exc |-> p.exc,
                         parameters |-> p.parameters, sent |-> Len(r.reqs) > 0,
                         data |-> PyNone]
            /\ coerced' = [called |-> TRUE, with_indexes |-> w, data |-> json,
                           result |-> search_items_result(json, PyBool(w))]
            /\ UNCHANGED <<ctx, flat, options>>

NextKeys ==
    \/ OpenSession
    \/ SearchAnswered

SpecKeys == Init /\ [][NextKeys]_vars

(***************************************************************************)
(* Status handling: every operation that sends a request, answered with    *)
(* any status and body, on a handler with or without a session.            *)
(***************************************************************************)
StatusAnswers ==
    {Ans(st, b, NoRng) : st \in Statuses, b \in {BodyExpected, BodyOtherError, BodyHtml, BodyBlank}}

InitSessionAnswered ==
    \E ans \in StatusAnswers :
        LET r == init_session(Self, RespOf(ans))
        IN  /\ Answered(r, ans, StatusAnswers)
            /\ Call("init_session", None, r, ans, r.exc, FALSE)
            /\ UNCHANGED ctx

GetterAnswered ==
    \E op \in Getters :
        \E ans \in StatusAnswers :
            LET r == getter(Self, op, RespOf(ans))
            IN  /\ Answered(r, ans, StatusAnswers)
                /\ Call(op, None, r, ans, r.exc, FALSE)
                /\ UNCHANGED ctx

MethodOpAnswered ==
    \E op \in MethodOps :
        \E ans \in StatusAnswers :
            LET r == method_op(Self, op, RespOf(ans))
            IN  /\ Answered(r, ans, StatusAnswers)
                /\ Call(op, None, r, ans, r.exc, FALSE)
                /\ UNCHANGED ctx

UploadDocumentAnswered ==
    \E ans \in StatusAnswers :
        LET r == upload_document(Self, RespOf(ans))
        IN  /\ Answered(r, ans, StatusAnswers)
            /\ Call("upload_document", None, r, ans, r.exc, FALSE)
            /\ UNCHANGED ctx

NextStatus ==
    \/ OpenSession
    \/ InitSessionAnswered
    \/ GetterAnswered
    \/ MethodOpAnswered
    \/ UploadDocumentAnswered

SpecStatus == Init /\ [][NextStatus]_vars

(***************************************************************************)
(* delete_items: the request body built from ids, purge and log.           *)
(***************************************************************************)
MaxIds == 3

\* a delete_items that sets force_purge for purge only
delete_items_data_purge_only(ids, purge, log) ==
    LET Set(d, k, v) ==
            IF \E j \in 1..Len(d.keys) : d.keys[j] = k
            THEN [d EXCEPT !.vals = [j \in 1..Len(d.vals) |->
                                        IF d.keys[j] = k THEN v ELSE d.vals[j]]]
            ELSE PyDict(Append(d.keys, k), Append(d.vals, v))
        RECURSIVE Comp(_, _)
        Comp(d, i) == IF i > Len(ids) THEN d
                      ELSE Comp(Set(d, "id", PyInt(ids[i])), i + 1)
        data == PyDict(<<"input">>, <<Comp(PyDict(<<>>, <<>>), 1)>>)
    IN  IF purge THEN Set(data, "force_purge", PyBool(TRUE)) ELSE data

\* data of RequestHandler.delete_items: the JSON body of the DELETE request
delete_items_data(ids, purge, log) ==
    LET \* d[k] = v
        Set(d, k, v) ==
            IF \E j \in 1..Len(d.keys) : d.keys[j] = k
            THEN [d EXCEPT !.vals = [j \in 1..Len(d.vals) |->
                                        IF d.keys[j] = k THEN v ELSE d.vals[j]]]
            ELSE PyDict(Append(d.keys, k), Append(d.vals, v))
        \* {"id": id_ for id_ in ids}: a dict comprehension, every id is
        \* stored under the one key "id"
        RECURSIVE Comp(_, _)
        Comp(d, i) == IF i > Len(ids) THEN d
                      ELSE Comp(Set(d, "id", PyInt(ids[i])), i + 1)
        data == PyDict(<<"input">>, <<Comp(PyDict(<<>>, <<>>), 1)>>)
        purged == IF purge THEN Set(data, "force_purge", PyBool(TRUE)) ELSE data
    IN  IF ~log THEN Set(purged, "force_purge", PyBool(TRUE)) ELSE purged

\* RequestHandler.delete_items(item_type, ids, purge, log)
DeleteItems ==
    /\ built.op = ""
    /\ \E ids \in SeqsUpTo(1..MaxIds, MaxIds) :
            \E purge \in BOOLEAN, log \in BOOLEAN :
                \E ans \in DataAnswers("delete_items", {NoRng}) :
                    LET r == method_op(Self, "delete_items", RespOf(ans))
                    IN  /\ Answered(r, ans, DataAnswers("delete_items", {NoRng}))
                        /\ Effect("delete_items", None, r, ans, r.exc, FALSE)
                        /\ built' = [op |-> "delete_items",
                                     args |-> [item_type |-> PyStr(<<"Software">>), ids |-> ids,
                                               purge |-> purge, log |-> log],
                                     exc |-> r.exc, parameters |-> <<>>,
                                     sent |-> Len(r.reqs) > 0,
                                     data |-> delete_items_data(ids, purge, log)]
                        /\ UNCHANGED <<ctx, flat, coerced, options>>

NextDelete ==
    \/ OpenSession
    \/ DeleteItems

SpecDelete == Init /\ [][NextDelete]_vars

(***************************************************************************)
(* get_search_options: the tree built from the uids when pretty is set.    *)
(***************************************************************************)
MaxOptions == 2
MaxUidParts == 3

\* s.split(sep) for a one-character separator
RECURSIVE SplitOn(_, _)
SplitOn(s, sep) ==
    LET at == {i \in 1..Len(s) : s[i] = sep}
        first == CHOOSE i \in at : \A j \in at : i <= j
    IN  IF at = {} THEN <<s>>
        ELSE <<SubSeq(s, 1, first - 1)>> \o SplitOn(SubSeq(s, first + 1, Len(s)), sep)

\* the else branch of RequestHandler.get_search_options: the tree built from
\* the decoded document json. Mapping keys are character sequences here.
get_search_options_pretty(json) ==
    LET \* k in d, d[k], d[k] = v
        Has(d, k) == \E j \in 1..Len(d.keys) : d.keys[j] = k
        Get(d, k) == d.vals[CHOOSE j \in 1..Len(d.keys) : d.keys[j] = k]
        Set(d, k, v) ==
            IF Has(d, k)
            THEN [d EXCEPT !.vals = [j \in 1..Len(d.vals) |->
                                        IF d.keys[j] = k THEN v ELSE d.vals[j]]]
            ELSE PyDict(Append(d.keys, k), Append(d.vals, v))
        \* recurse_parts changes part_data in place; here it returns the
        \* changed part_data. end is stored as the object it is, so the
        \* "id" set after the assignment is seen in the tree
        RECURSIVE recurse_parts(_, _, _, _, _)
        recurse_parts(part_name, part_data, rest, end, id_) ==
            LET data == IF Has(part_data, part_name) THEN part_data
                        ELSE Set(part_data, part_name, PyDict(<<>>, <<>>))
            IN  IF Len(rest) = 0
                THEN Set(data, part_name, Set(end, <<"i", "d">>, PyInt(id_)))
                ELSE Set(data, part_name,
                         recurse_parts(Head(rest), Get(data, part_name), Tail(rest), end, id_))
        \* for k, v in json.items(): if k.isdecimal(): ...
        RECURSIVE Loop(_, _)
        Loop(result, i) ==
            IF i > Len(json.keys) THEN result
            ELSE IF IsDecimal(json.keys[i])
            THEN LET parts == SplitOn(Get(json.vals[i], <<"u", "i", "d">>).s, ".")
                 IN  Loop(recurse_parts(Head(parts), result, Tail(parts), json.vals[i],
                                        StrToInt(json.keys[i])), i + 1)
            ELSE Loop(result, i + 1)
    IN  Loop(PyDict(<<>>, <<>>), 1)

\* get_search_options(item_type, pretty=p) in an open session, answered with
\* the options 1, 2, ... of distinct uids of up to MaxUidParts components,
\* after the entry 'common' or without it
GetSearchOptions ==
    /\ session_token # None
    /\ ~options.called
    /\ LET Paths == SeqsUpTo({"A", "b"}, MaxUidParts) \ {<<>>}
           RECURSIVE Join(_)
           Join(p) == IF Len(p) = 1 THEN p ELSE <<Head(p), ".">> \o Join(Tail(p))
           Option(p) == PyDict(<< <<"n", "a", "m", "e">>, <<"u", "i", "d">> >>,
                               <<PyStr(<<"n">>), PyStr(Join(p))>>)
           Uids == {q \in SeqsUpTo(Paths, MaxOptions) :
                       \A i, j \in 1..Len(q) : i # j => q[i] # q[j]}
           Numbered(q) == PyDict([i \in 1..Len(q) |-> IntToStr(i)],
                                 [i \in 1..Len(q) |-> Option(q[i])])
           Common(d) == PyDict(<< <<"c", "o", "m", "m", "o", "n">> >> \o d.keys,
                               <<PyStr(<<"C">>)>> \o d.vals)
           ans == Ans(200, BodyExpected, NoRng)
           r == getter(Self, "get_search_options", RespOf(ans))
       IN  \E q \in Uids, common \in BOOLEAN, pretty \in BOOLEAN :
               LET json == IF common THEN Common(Numbered(q)) ELSE Numbered(q)
               IN  /\ Effect("get_search_options", None, r, ans, r.exc, FALSE)
                   /\ options' = [called |-> TRUE, pretty |-> pretty, json |-> json,
                                  result |-> IF pretty THEN get_search_options_pretty(json)
                                             ELSE json]
                   /\ UNCHANGED <<ctx, built, flat, coerced>>

NextOptions ==
    \/ OpenSession
    \/ GetSearchOptions

SpecOptions == Init /\ [][NextOptions]_vars

(***************************************************************************)
(* Properties.                                                             *)
(***************************************************************************)

\* the answer of the last call was the remote's invalid-token answer
InvalidTokenAnswer ==
    /\ last_call.nreq = 1
    /\ last_call.status = 401
    /\ last_call.body.t = "list"
    /\ Len(last_call.body.items) > 0
    /\ last_call.body.items[1] = "ERROR_SESSION_TOKEN_INVALID"

\* C1: a read of session_token never returns a token whose termination by
\* kill_session has already succeeded (it raises GLPIError instead).
C1_NoTerminatedToken ==
    (last_call.op = "session_token" /\ last_call.exc = Ok)
        => last_call.tok \notin terminated

\* C2: init_session on a handler that holds a token raises 'Session already
\* initialized.', sends no request and leaves the token as it was.
C2_DoubleInit ==
    (last_call.op = "init_session" /\ last_call.tok_before # None)
        => /\ last_call.exc = Err.AlreadyInit
           /\ last_call.nreq = 0
           /\ session_token = last_call.tok_before

C2_Witness ==
    /\ last_call.op = "init_session"
    /\ last_call.tok_before # None
    /\ last_call.exc = Err.AlreadyInit
    /\ session_token \in remote_active

\* C3: when a with-block whose __enter__ succeeded is left, a killSession
\* request for the token obtained on enter has been sent and the handler
\* holds no token, whatever the body did and however it ended.
C3_ExitTerminates ==
    last_call.op = "__exit__"
        => /\ ctx.token \in kill_requested
           /\ session_token = None

C3_Witness ==
    /\ last_call.op = "__exit__"
    /\ last_call.body_exc
    /\ last_call.nreq = 1
    /\ last_call.status = 500
    /\ last_call.req_tok = ctx.token
    /\ session_token = None

\* C4: an operation that needs a session, called while no token is held,
\* raises GLPIError, sends no request and leaves token and recorded
\* response headers unchanged.
C4_NoSessionNoRequest ==
    (/\ last_call.op \in Getters \cup MethodOps \cup {"upload_document", "kill_session"}
     /\ last_call.arg = None
     /\ last_call.tok_before = None)
        => /\ last_call.exc = Err.NotInitiated
           /\ last_call.nreq = 0
           /\ session_token = None
           /\ last_call.hdr_kept

C4_Witness ==
    /\ last_call.op = "upload_document"
    /\ last_call.tok_before = None
    /\ last_call.exc = Err.NotInitiated
    /\ ~response_header.isNone

\* C5: at most one session obtained by the handler is alive on the remote.
C5_OneActiveSession == Cardinality(remote_active) <= 1

\* C6: a failing killSession answer makes kill_session raise 'Session
\* expired' when it is 401 with a JSON list starting with
\* ERROR_SESSION_TOKEN_INVALID, and the original GLPIRequestError otherwise.
C6_KillErrors ==
    (/\ last_call.op = "kill_session"
     /\ last_call.nreq = 1
     /\ last_call.status >= 400)
        => IF InvalidTokenAnswer
           THEN last_call.exc = Err.SessionExpired
           ELSE last_call.exc = Err.Request /\ last_call.err_kept

\* C7 as stated: kill_session called again right after a kill_session that
\* succeeded, for the same session, ends in 'Session expired' (a request
\* that is sent being given the invalid-token answer).
C7_SecondKillExpired ==
    (/\ last_call.op = "kill_session"
     /\ last_call.again
     /\ (last_call.nreq = 1 => InvalidTokenAnswer))
        => last_call.exc = Err.SessionExpired

\* C7 amended: the second termination never returns normally; without a
\* token held it is the state error and no request is sent; when the
\* terminated token is sent again and gets the invalid-token answer it is
\* 'Session expired'.
C7_SecondKillFails ==
    (last_call.op = "kill_session" /\ last_call.again)
        => /\ last_call.exc # Ok
           /\ (last_call.nreq = 0 => last_call.exc = Err.NotInitiated)
           /\ (InvalidTokenAnswer => last_call.exc = Err.SessionExpired)

C7_Witness ==
    /\ last_call.op = "kill_session"
    /\ last_call.again
    /\ last_call.arg # None
    /\ last_call.arg \in terminated
    /\ last_call.exc = Err.SessionExpired

\* C8: a refused initSession makes init_session raise GLPIRequestError and
\* leaves the handler without token: session_token still raises, and the
\* next init_session sends a request instead of being rejected.
C8_InitRefused ==
    /\ (/\ last_call.op = "init_session"
        /\ last_call.nreq = 1
        /\ last_call.status >= 400)
           => /\ last_call.exc = Err.Request
              /\ session_token = None
              /\ session_token_of(Self).exc = Err.NotInitiated
    /\ (last_call.op = "init_session" /\ last_call.tok_before = None)
           => /\ last_call.nreq = 1
              /\ last_call.exc # Err.AlreadyInit

C8_Witness ==
    /\ last_call.op = "init_session"
    /\ last_call.status = 401
    /\ last_call.exc = Err.Request
    /\ session_token = None
    /\ ~response_header.isNone

\* C9: response_range describes the most recent response received: the range
\* it carried, or the 'did not return a range' error when it carried none.
C9_RangeOfLastResponse ==
    (last_call.op = "response_range" /\ wire.received)
        => IF wire.rg.cr /\ wire.rg.ar
           THEN /\ last_call.exc = Ok
                /\ last_call.range = ResponseRange(wire.rg.s, wire.rg.e, wire.rg.c, wire.rg.m)
           ELSE last_call.exc = Err.NoRange

\* C10: after a response with Content-Range "<s>-<e>/<c>" and Accept-Range
\* "<unit> <m>", response_range is ResponseRange(s, e, c, m).
C10_RangeParsed ==
    (last_call.op = "response_range" /\ wire.received /\ wire.rg.cr /\ wire.rg.ar)
        => /\ last_call.exc = Ok
           /\ last_call.range = ResponseRange(wire.rg.s, wire.rg.e, wire.rg.c, wire.rg.m)

C10_Witness ==
    /\ last_call.op = "response_range"
    /\ wire.received
    /\ wire.rg = Rng(TRUE, TRUE, 0, 9, 10, 10, Items)
    /\ last_call.range = ResponseRange(0, 9, 10, 10)


\* C11: response_range raises 'No request made' on a handler that has sent
\* no request yet, and 'The previous request did not return a range' when
\* the recorded response lacks Content-Range or Accept-Range; it returns no
\* ResponseRange in either case.
C11_RangeErrors ==
    last_call.op = "response_range"
        => /\ ~session => (last_call.exc = Err.NoRequest /\ last_call.range = NoRange)
           /\ (/\ ~response_header.isNone
               /\ \/ "Content-Range" \notin DOMAIN response_header.h
                  \/ "Accept-Range" \notin DOMAIN response_header.h)
                 => (last_call.exc = Err.NoRange /\ last_call.range = NoRange)

C11_Witness ==
    /\ last_call.op = "response_range"
    /\ last_call.exc = Err.NoRange
    /\ "Content-Range" \in DOMAIN response_header.h
    /\ "Accept-Range" \notin DOMAIN response_header.h


\* the optional arguments of the call recorded in built, the value the
\* builder reads for each, and the parameters emitted for it: under its
\* wire-level key (EmittedUnder) or under any key derived from it (EmittedFor)
BuiltSig == Signature[built.op]
OptionalNames == {n \in SigNames(BuiltSig) : SigOf(BuiltSig, n).has_default}
BuiltLocal(n) == Locals(built.args)[n]
IsDefault(n) == PyEq(BuiltLocal(n), SigOf(BuiltSig, n).default)
WireKey(n) == IF n \in DOMAIN Rename[built.op] THEN Rename[built.op][n] ELSE n
EmittedUnder(n) == SelectSeq(built.parameters, LAMBDA p : p.key.name = WireKey(n))
EmittedFor(n) ==
    LET KeyNames == {n, WireName(Rename[built.op], n)}
                    \cup (IF n = "filter_by" THEN {"searchText"} ELSE {})
                    \cup (IF n = "filters" THEN {"criteria"} ELSE {})
    IN  SelectSeq(built.parameters, LAMBDA p : p.key.name \in KeyNames)

\* C12: for get_item, get_many_items, get_sub_items, get_search_options and
\* search_items, an optional argument whose value equals its default never
\* produces a request parameter, and when every optional argument equals its
\* default the parameter list sent with the request is empty.
C12_DefaultsOmitted ==
    built.op # ""
        => /\ \A n \in OptionalNames :
                PyEq(built.args[n], SigOf(BuiltSig, n).default) => EmittedFor(n) = <<>>
           /\ (\A n \in OptionalNames : PyEq(built.args[n], SigOf(BuiltSig, n).default))
                => built.parameters = <<>>

C12_Witness ==
    /\ built.op = "get_many_items"
    /\ built.sent
    /\ built.args["get_hateoas"] = PyInt(1)
    /\ built.args["add_key_names"] # PyNone
    /\ EmittedFor("get_hateoas") = <<>>
    /\ built.parameters # <<>>

\* C13 (as stated): for every optional argument of a parameter-building
\* operation whose runtime value differs from its declared default, the
\* builder emits at least one request parameter for that argument, under its
\* wire-level (renamed or original) key.
C13_NonDefaultEmitted ==
    built.op # ""
        => \A n \in OptionalNames : ~IsDefault(n) => EmittedUnder(n) # <<>>

\* C13 (amended): for every optional argument whose runtime value differs
\* from its declared default and is not an empty list or tuple, the builder
\* emits at least one request parameter under its wire-level key; an empty
\* list or tuple produces no parameter.
C13_NonDefaultEmittedUnlessEmpty ==
    LET IsEmptySequence(v) == v.t \in {"list", "tuple"} /\ v.vals = <<>>
    IN  built.op # ""
            => \A n \in OptionalNames :
                  ~IsDefault(n)
                     => IF IsEmptySequence(BuiltLocal(n)) THEN EmittedUnder(n) = <<>>
                        ELSE EmittedUnder(n) # <<>>

C13_Witness ==
    /\ built.op = "get_sub_items"
    /\ built.sent
    /\ built.args["get_hateoas"] = PyBool(FALSE)
    /\ built.args["sort_by"] = PyInt(2)
    /\ built.parameters = <<Param(Key("get_hateoas", FALSE, <<>>), PyInt(0)),
                            Param(Key("sort", FALSE, <<>>), PyInt(2))>>

\* C14: for every list- or tuple-valued argument reaching the builder
\* (add_key_names, force_display) that differs from its default, the number
\* of parameters emitted for it equals the sequence length, each has the key
\* '<renamed-or-original name>[]', and the i-th emitted value is the i-th
\* element of the sequence.
C14_OnePerElement ==
    built.op # ""
        => \A n \in OptionalNames :
              (BuiltLocal(n).t \in {"list", "tuple"} /\ ~IsDefault(n))
                 => /\ Len(EmittedFor(n)) = Len(BuiltLocal(n).vals)
                    /\ \A i \in 1..Len(BuiltLocal(n).vals) :
                          EmittedFor(n)[i] = Param(Key(WireKey(n), TRUE, <<>>),
                                                   BuiltLocal(n).vals[i])

C14_Witness ==
    /\ built.op = "search_items"
    /\ built.sent
    /\ built.args["force_display"] = PyTuple(<<PyInt(2), PyInt(1)>>)
    /\ built.args["raw_data"] = PyBool(TRUE)
    /\ built.parameters = <<Param(Key("forcedisplay", TRUE, <<>>), PyInt(2)),
                            Param(Key("forcedisplay", TRUE, <<>>), PyInt(1)),
                            Param(Key("rawdata", FALSE, <<>>), PyBool(TRUE))>>

\* the nodes of a tree, each with the path that leads to it
RECURSIVE NodesAt(_, _)
NodesAt(tree, path) ==
    {[path |-> path, node |-> tree]}
    \cup (IF tree.t = "dict"
          THEN UNION {NodesAt(tree.vals[i], Append(path, KeyComp(tree.keys[i])))
                      : i \in 1..Len(tree.vals)}
          ELSE IF tree.t = "list"
          THEN UNION {NodesAt(tree.vals[i], Append(path, IdxComp(i - 1)))
                      : i \in 1..Len(tree.vals)}
          ELSE {})
\* a tree of mappings, sequences and scalars
IsCriteriaTree(tree) ==
    \A x \in NodesAt(tree, <<>>) : x.node.t \in {"dict", "list"} \/ IsScalar(x.node)

\* C15: for every criteria tree of mappings, sequences and scalars, each
\* scalar leaf appears exactly once in the output of
\* add_criteria_to_parameters, paired with the bracket path that resolves to
\* that leaf in the tree, and no emitted value is a mapping or a sequence.
C15_EveryLeafOnce ==
    LET ScalarLeaves == {x \in NodesAt(flat.criteria, <<>>) : IsScalar(x.node)}
        Occurrences(p) ==
            Cardinality({i \in 1..Len(flat.parameters) : flat.parameters[i] = p})
    IN  (flat.called /\ IsCriteriaTree(flat.criteria))
            => /\ \A x \in ScalarLeaves :
                    Occurrences(Param(Key("criteria", FALSE, x.path), x.node)) = 1
               /\ \A i \in 1..Len(flat.parameters) : IsScalar(flat.parameters[i].value)

\* C16: add_criteria_to_parameters fails with NotImplementedError exactly
\* when the tree contains a node that is neither a mapping, a sequence nor a
\* scalar; a scalar reached through a sequence is emitted as
\* (path[index], value) and does not make the call fail.
C16_FailsOnUnsupportedOnly ==
    flat.called
        => /\ flat.exc = Err.NotImplemented <=> ~IsCriteriaTree(flat.criteria)
           /\ flat.exc \in {Ok, Err.NotImplemented}

\* C17: search_items emits the search criteria as ('criteria[i][key]', value)
\* pairs, and 'criteria[i][criteria][j][key]' for nested groups, in the
\* iteration order of the input, appended after the parameters already built
\* from the optional arguments, which are neither reordered nor removed.
C17_CriteriaAppended ==
    LET \* the concatenation of a sequence of sequences
        RECURSIVE ConcatAll(_)
        ConcatAll(qs) == IF Len(qs) = 0 THEN <<>> ELSE Head(qs) \o ConcatAll(Tail(qs))
        \* 'criteria<path>[key]' for each item of a criterion
        CriterionParams(path, c) ==
            [k \in 1..Len(c.keys) |->
                Param(Key("criteria", FALSE, Append(path, KeyComp(c.keys[k]))), c.vals[k])]
        \* the parameters of the i-th entry of the filters: a criterion, or a
        \* group whose "criteria" are numbered in turn
        EntryParams(i, e) ==
            ConcatAll([k \in 1..Len(e.keys) |->
                IF e.keys[k] = "criteria"
                THEN ConcatAll([j \in 1..Len(e.vals[k].vals) |->
                         CriterionParams(<<IdxComp(i), KeyComp("criteria"), IdxComp(j - 1)>>,
                                         e.vals[k].vals[j])])
                ELSE <<Param(Key("criteria", FALSE, <<IdxComp(i), KeyComp(e.keys[k])>>),
                             e.vals[k])>>])
        FiltersParams(filters) ==
            IF filters.t = "none" THEN <<>>
            ELSE ConcatAll([i \in 1..Len(filters.vals) |-> EntryParams(i - 1, filters.vals[i])])
    IN  built.op = "search_items"
            => LET crit == FiltersParams(built.args["filters"])
                   rest == Len(built.parameters) - Len(crit)
                   alone == request_parameters("search_items",
                                               [built.args EXCEPT !["filters"] = PyNone])
               IN  /\ built.exc = Ok
                   /\ rest >= 0
                   /\ SubSeq(built.parameters, rest + 1, Len(built.parameters)) = crit
                   /\ SubSeq(built.parameters, 1, rest) = alone.parameters
                   /\ \A i \in 1..rest : built.parameters[i].key.name # "criteria"

C17_Witness ==
    /\ built.op = "search_items"
    /\ built.sent
    /\ built.args["filters"] = PyList(<<Criterion(2), Group(<<Criterion(1), Criterion(2)>>)>>)
    /\ Len(built.parameters) = 8
    /\ built.parameters[1] = Param(Key("sort", FALSE, <<>>), PyInt(2))
    /\ built.parameters[2] =
          Param(Key("criteria", FALSE, <<IdxComp(0), KeyComp("field")>>), PyInt(2))
    /\ built.parameters[4] =
          Param(Key("criteria", FALSE, <<IdxComp(1), KeyComp("link")>>), PyStr(<<"A", "N", "D">>))
    /\ built.parameters[8] =
          Param(Key("criteria", FALSE,
                    <<IdxComp(1), KeyComp("criteria"), IdxComp(1), KeyComp("value")>>),
                PyStr(<<"x">>))

\* C18: search_items called with with_indexes=False returns every record of
\* 'data' and of 'data_html' with each key that consists entirely of decimal
\* digits replaced by its integer value, and every other key and all values
\* left unchanged; with with_indexes=True no key is converted.
C18_KeysCoerced ==
    LET \* the key a record key is to become: its integer when it consists
        \* entirely of decimal digits, itself otherwise
        CoercedKey(k) == IF IsDecimal(k.s) THEN PyInt(StrToInt(k.s)) ELSE k
        EntriesOf(rec) == {rec[i] : i \in 1..Len(rec)}
        IsCoerced(rec, out) ==
            /\ Len(out) = Len(rec)
            /\ EntriesOf(out) = {Entry(CoercedKey(e.k), e.v) : e \in EntriesOf(rec)}
        SameRecord(rec, out) == Len(out) = Len(rec) /\ EntriesOf(out) = EntriesOf(rec)
    IN  coerced.called
            => /\ Len(coerced.result.data) = Len(coerced.data.data)
               /\ Len(coerced.result.data_html) = Len(coerced.data.data_html)
               /\ \A i \in 1..Len(coerced.data.data) :
                     IF coerced.with_indexes
                     THEN SameRecord(coerced.data.data[i], coerced.result.data[i])
                     ELSE IsCoerced(coerced.data.data[i], coerced.result.data[i])
               /\ \A i \in 1..Len(coerced.data.data_html) :
                     IF coerced.with_indexes
                     THEN SameRecord(coerced.data.data_html[i], coerced.result.data_html[i])
                     ELSE IsCoerced(coerced.data.data_html[i], coerced.result.data_html[i])

\* the operations that defer status handling, with the status each recognises
Recognised ==
    [change_active_profile |-> {404},
     change_active_entity |-> {400},
     download_document |-> {},
     download_user_profile_picture |-> {204}]

\* C19: for every operation that does not defer status handling
\* (init_session, the getters, add_items, update_items, delete_items,
\* upload_document), a response whose status is not 2xx makes the call raise
\* GLPIRequestError carrying the response; no such response is returned to
\* the caller as a result.
C19_Non2xxRaises ==
    (/\ last_call.op \in Getters \cup {"init_session", "upload_document", "add_items",
                                       "update_items", "delete_items"}
     /\ last_call.nreq > 0
     /\ last_call.status # NoResponse
     /\ last_call.status \notin 200..299)
        => /\ last_call.exc \in {Err.Request, Err.RequestBlank, Err.RequestNotJson}
           /\ last_call.err_kept

\* C20: for the operations that defer status handling (change_active_profile,
\* change_active_entity, download_document, download_user_profile_picture),
\* a failure response that is not the operation's recognised domain code
\* still raises an error to the caller.
C20_DeferredFailureRaises ==
    (/\ last_call.op \in DOMAIN Recognised
     /\ last_call.nreq > 0
     /\ last_call.status # NoResponse
     /\ last_call.status >= 400
     /\ last_call.status \notin Recognised[last_call.op])
        => last_call.exc # Ok


\* C21: every operation that expects a JSON body (init_session, the getters,
\* add_items, update_items, delete_items, upload_document) raises
\* GLPIRequestError with the blank-body or not-JSON message when a 2xx
\* response has an empty or non-JSON body; after init_session the handler
\* then holds no token.
C21_BlankOrNonJsonRaises ==
    (/\ last_call.op \in Getters \cup {"init_session", "upload_document", "add_items",
                                       "update_items", "delete_items"}
     /\ last_call.nreq > 0
     /\ last_call.status \in 200..299
     /\ ~IsJson(last_call.body))
        => /\ last_call.exc = IF last_call.body.t = "blank" THEN Err.RequestBlank
                              ELSE Err.RequestNotJson
           /\ (last_call.op = "init_session" => session_token = None)


\* C22: each call of a public operation issues at most one HTTP request:
\* exactly one when its session precondition is met (no stored token for
\* init_session and __enter__, a stored token for the others, none needed by
\* kill_session(session_id)), none when the precondition fails; a request
\* that failed or got no answer is not issued again.
C22_OneRequestPerCall ==
    LET op == last_call.op
        stored == last_call.tok_before # None
        met == IF op \in {"init_session", "__enter__"} THEN ~stored
               ELSE IF op = "kill_session" /\ last_call.arg # None THEN TRUE
               ELSE stored
    IN  op \notin {"", "session_token", "response_range"}
            => last_call.nreq = IF met THEN 1 ELSE 0

\* a request of add_items, update_items or delete_items was refused
C22_Witness ==
    /\ OnErrorRaise(last_call.op)
    /\ last_call.status >= 400
    /\ last_call.exc = Err.Request
    /\ last_call.nreq = 1


\* C23: delete_items(item_type, ids) sends one DELETE request whose input
\* identifies every id contained in ids, for one id or several.
C23_EveryIdSent ==
    (built.op = "delete_items" /\ built.sent)
        => /\ last_call.nreq = 1
           /\ LET input == built.data.vals[1]
              IN  \A i \in 1..Len(built.args.ids) :
                      \E j \in 1..Len(input.keys) :
                          /\ input.keys[j] = "id"
                          /\ input.vals[j] = PyInt(built.args.ids[i])

C25_KillThenInit ==
    [][/\ (IsKill(last_call'.op) /\ last_call'.arg = None) => session_token' = None
       /\ (/\ IsKill(last_call.op) /\ last_call.arg = None
           /\ last_call'.op \in {"init_session", "__enter__"})
            => /\ last_call'.exc # Err.AlreadyInit
               /\ last_call'.nreq = 1
               /\ (last_call'.status = 200 /\ "session_token" \in last_call'.body.keys)
                    => /\ last_call'.exc = Ok
                       /\ session_token' = last_call'.body.token
                       /\ session_token' \notin kill_requested]_vars

\* a refused kill_session() of a stored token was followed by an
\* init_session that stored a new token
C25_Witness ==
    /\ last_call.op = "init_session"
    /\ last_call.exc = Ok
    /\ session_token # None
    /\ kill_requested # {}
    /\ terminated = {}


\* C26: an exception raised in the body of a with-block reaches the caller
\* as that same exception: __exit__ neither suppresses it nor replaces it
\* with an error of the session termination.
C26_BodyExceptionKept ==
    (last_call.op = "__exit__" /\ last_call.body_exc)
        => last_call.exc = Err.Body


\* C27: get_many_items called with filter_by={n1: v1, ...} sends exactly one
\* parameter ('searchText[n_i]', v_i) per entry, in mapping order and after
\* the other parameters, and sends the filters in no other parameter: no key
\* of the parameter list is the Python argument name filter_by.
C27_SearchTextOnly ==
    (/\ built.op = "get_many_items"
     /\ built.sent
     /\ built.args["filter_by"].t = "dict")
        => LET filter_by == built.args["filter_by"]
               n == Len(filter_by.keys)
               rest == Len(built.parameters) - n
           IN  /\ rest >= 0
               /\ \A i \in 1..n :
                      built.parameters[rest + i] =
                          Param(Key("searchText", FALSE, <<KeyComp(filter_by.keys[i])>>),
                                filter_by.vals[i])
               /\ \A i \in 1..rest :
                      built.parameters[i].key.name \notin {"searchText", "filter_by"}


\* C28: key coercion never loses data: every record returned by search_items
\* (with_indexes=False) has as many entries as the record received, and each
\* value received is present under the key derived from its key (int(k) when
\* that succeeds, k otherwise), also when several string keys denote the same
\* integer, such as '1' and '01'.
C28_NoEntryLost ==
    LET DerivedKey(k) == IF PyIntOf(k.s).ok THEN PyInt(PyIntOf(k.s).n) ELSE k
        Kept(rec, out) ==
            /\ Len(out) = Len(rec)
            /\ \A i \in 1..Len(rec) :
                  \E j \in 1..Len(out) :
                      out[j] = Entry(DerivedKey(rec[i].k), rec[i].v)
    IN  (coerced.called /\ ~coerced.with_indexes)
            => /\ \A i \in 1..Len(coerced.data.data) :
                     Kept(coerced.data.data[i], coerced.result.data[i])
               /\ \A i \in 1..Len(coerced.data.data_html) :
                     Kept(coerced.data.data_html[i], coerced.result.data_html[i])


\* C29: get_search_options(pretty=True) returns a tree in which every
\* decimal-keyed option of the raw response is reached by following the
\* dot-separated components of its uid from the root, the node reached
\* carries 'id' equal to the integer value of the option's key, and the
\* non-decimal keys contribute nothing; for every set of uids in any order,
\* including uids that are prefixes of one another.
C29_EveryOptionReachable ==
    LET json == options.json
        Has(d, k) == d.t = "dict" /\ \E j \in 1..Len(d.keys) : d.keys[j] = k
        Get(d, k) == d.vals[CHOOSE j \in 1..Len(d.keys) : d.keys[j] = k]
        \* the node reached from d along the path, PyNone when there is none
        RECURSIVE Follow(_, _)
        Follow(d, path) ==
            IF Len(path) = 0 THEN d
            ELSE IF Has(d, Head(path)) THEN Follow(Get(d, Head(path)), Tail(path))
            ELSE PyNone
        Decimal == {i \in 1..Len(json.keys) : IsDecimal(json.keys[i])}
        PathOf(i) == SplitOn(Get(json.vals[i], <<"u", "i", "d">>).s, ".")
    IN  (options.called /\ options.pretty)
            => /\ \A i \in Decimal :
                     LET node == Follow(options.result, PathOf(i))
                     IN  /\ Has(node, <<"i", "d">>)
                         /\ Get(node, <<"i", "d">>) = PyInt(StrToInt(json.keys[i]))
               /\ \A j \in 1..Len(options.result.keys) :
                     \E i \in Decimal : PathOf(i)[1] = options.result.keys[j]


\* C30: get_item for an item the remote service reports as missing (a
\* failure status on '<item_type>/<id>') raises the GLPIError whose message
\* is '<item_type> with id=<id_> was not found'.
C30_MissingItemNotFound ==
    (/\ last_call.op = "get_item"
     /\ last_call.nreq = 1
     /\ last_call.status >= 400)
        => last_call.exc = Err.ItemNotFound

====
